---- MODULE Spec2Model ----
(***************************************************************************)
(* Model of the GroundStation HTTP gateway (server/app.py) and of the      *)
(* schema library (server/models.py).                                      *)
(*                                                                         *)
(* Spec       : process start-up followed by the handling of HTTP requests *)
(*              through the middleware stack the module builds:            *)
(*              ServerErrorMiddleware > CORSMiddleware > ExceptionMiddleware*)
(*              > router > endpoint > response_model serialisation.        *)
(*              Requests of every Origin, handled one after the other.     *)
(* SpecConcurrent : the same actions with two requests in flight at once,  *)
(*              sent by the front end at http://localhost:3000.            *)
(* SpecSchema : construction of the GeographicPoint family of records      *)
(*              (LatLonDict and the three classes that extend it).         *)
(***************************************************************************)
EXTENDS Integers, Sequences, FiniteSets, TLC

VARIABLES
    configFile,   \* what open("config.json") finds: "valid", "absent", "malformed"
    pc,           \* position of the module-level code of app.py
    config,       \* the module global `config`
    boot,         \* start-up steps completed so far, in order
    console,      \* records emitted by console_handler
    logFile,      \* records written to log.txt
    debugFile,    \* records written to debug_log.txt
    cors,         \* the installed CORSMiddleware options
    controllers,  \* GroundStation instances constructed so far
    gs,           \* the module global `gs` (0: not bound yet)
    nreq,         \* number of requests received so far
    reqs,         \* per worker: the request it is handling
    schemaIn,     \* SpecSchema: the constructor call being made
    schemaOut     \* SpecSchema: its outcome

vars == <<configFile, pc, config, boot, console, logFile, debugFile, cors,
          controllers, gs, nreq, reqs, schemaIn, schemaOut>>

gatewayVars == <<configFile, pc, config, boot, console, logFile, debugFile, cors,
                 controllers, gs, nreq, reqs>>

schemaVars == <<schemaIn, schemaOut>>

----------------------------------------------------------------------------
(* Bounds                                                                  *)

\* Requests received over the lifetime of the process.
MaxRequests == 2

\* Requests in flight at the same time (threads of the server's pool).
Workers == {1, 2}

----------------------------------------------------------------------------
(* Logging (app.py 40-61)                                                  *)

DEBUG == 10
INFO == 20
WARNING == 30
ERROR == 40

LoggerLevel == DEBUG

\* A variant with the console at the level of log.txt.
ConsoleLevelInfo == INFO

ConsoleLevel == WARNING

FileLevel == INFO

DebugFileLevel == DEBUG

LogRecord(level, msg, args, excInfo, req) ==
    [level |-> level, msg |-> msg, args |-> args, exc_info |-> excInfo, req |-> req]

\* Handler.handle: a handler emits the records at or above its own level,
\* among those the logger itself lets through.
Emit(sink, handlerLevel, rec) ==
    IF rec.level >= LoggerLevel /\ rec.level >= handlerLevel
    THEN Append(sink, rec)
    ELSE sink

\* logger.<level>(...) on the "main" logger with its three handlers.
LoggerCall(recs) ==
    LET RECURSIVE All(_, _, _)
        All(sink, lvl, rs) ==
            IF rs = <<>> THEN sink ELSE All(Emit(sink, lvl, Head(rs)), lvl, Tail(rs))
    IN  /\ console' = All(console, ConsoleLevel, recs)
        /\ logFile' = All(logFile, FileLevel, recs)
        /\ debugFile' = All(debugFile, DebugFileLevel, recs)

----------------------------------------------------------------------------
(* Requests                                                                *)

AllowedOrigin == "http://localhost:3000"

Origins == {"", AllowedOrigin, "http://evil.example"}

Methods == {"GET", "POST", "OPTIONS"}

\* Access-Control-Request-Method header of a request ("": header absent).
RequestedMethods == {"", "DELETE"}

\* The four enabled routes, and one path whose route is commented out.
Paths == {"/interop/login", "/interop/mission", "/interop/telemetry",
          "/uav/quick", "/uav/stats"}

Routes ==
    { [name |-> "interop_login",     method |-> "POST", path |-> "/interop/login",
       status_code |-> 201, command |-> "i_login"],
      [name |-> "interop_mission",   method |-> "GET",  path |-> "/interop/mission",
       status_code |-> 200, command |-> "i_mission"],
      [name |-> "interop_telemetry", method |-> "GET",  path |-> "/interop/telemetry",
       status_code |-> 200, command |-> "i_telemetry"],
      [name |-> "quick",             method |-> "GET",  path |-> "/uav/quick",
       status_code |-> 200, command |-> "m_quick"] }

RouteNamed(n) == CHOOSE r \in Routes : r.name = n

\* Values the Controller's call may return: the envelope the response models
\* require, the same with a key the models do not declare, and the data alone,
\* without the `result` key. The data under `result` is taken to fit the
\* route's model.
Data == [altitude |-> 150]

Payloads == { [result |-> Data],
              [result |-> Data, debug |-> Data],
              Data }

NoValue == [none |-> TRUE]

Messages == {"link down", "not ready"}

\* Failure kinds the Controller may raise: the four of errors.py and one
\* exception type that is none of them.
ControllerErrors == {"InvalidRequestError", "InvalidStateError",
                     "ServiceUnavailableError", "GeneralError", "KeyError"}

Exc(type, msg, status) ==
    [type |-> type, msg |-> msg, tb |-> <<"File groundstation.py, in call">>,
     status |-> status]

NoExc == [type |-> "", msg |-> "", tb |-> <<>>, status |-> 0]

NoBody == [pending |-> TRUE]

NoHeaders == [allow_origin |-> "", allow_credentials |-> FALSE, vary_origin |-> FALSE]

\* What gs.call did for a request: nothing yet, returned a value, or raised.
NoOutcome == [kind |-> "none", value |-> NoValue, exc |-> NoExc]

Idle ==
    [id |-> 0, stage |-> "idle", method |-> "", path |-> "", origin |-> "",
     acrm |-> "", route |-> "", calls |-> <<>>, ctl |-> NoOutcome,
     result |-> NoValue, exc |-> NoExc, handler |-> "", layer |-> "",
     status |-> 0, body |-> NoBody, headers |-> NoHeaders]

----------------------------------------------------------------------------
(* Start-up: the module-level code of app.py, top to bottom                *)

Init ==
    /\ configFile \in {"valid", "absent", "malformed"}
    /\ pc = "load_config"
    /\ config = "unset"
    /\ boot = <<>>
    /\ console = <<>>
    /\ logFile = <<>>
    /\ debugFile = <<>>
    /\ cors = [installed |-> FALSE, allow_origins |-> {}, allow_credentials |-> FALSE,
               allow_all_methods |-> FALSE, allow_all_headers |-> FALSE]
    /\ controllers = {}
    /\ gs = 0
    /\ nreq = 0
    /\ reqs = [w \in Workers |-> Idle]
    /\ schemaIn = [model |-> "none", latitude |-> [kind |-> "missing", v |-> 0],
                   longitude |-> [kind |-> "missing", v |-> 0],
                   altitude |-> [kind |-> "missing", v |-> 0],
                   heading |-> [kind |-> "missing", v |-> 0],
                   radius |-> [kind |-> "missing", v |-> 0],
                   height |-> [kind |-> "missing", v |-> 0]]
    /\ schemaOut = "none"

\* A variant that carries on after a failed load.
LoadConfigSwallow ==
    /\ pc = "load_config"
    /\ config' = IF configFile = "valid" THEN "loaded" ELSE "unset"
    /\ pc' = "setup_logging"
    /\ boot' = Append(boot, "config")
    /\ UNCHANGED <<configFile, console, logFile, debugFile, cors, controllers, gs,
                   nreq, reqs, schemaVars>>

\* with open("config.json") as file: config = json.load(file)
\* An absent or malformed file raises at import time: the process ends.
LoadConfig ==
    /\ pc = "load_config"
    /\ \/ /\ configFile = "valid"
          /\ config' = "loaded"
          /\ pc' = "setup_logging"
          /\ boot' = Append(boot, "config")
       \/ /\ configFile # "valid"
          /\ pc' = "crashed"
          /\ UNCHANGED <<config, boot>>
    /\ UNCHANGED <<configFile, console, logFile, debugFile, cors, controllers, gs,
                   nreq, reqs, schemaVars>>

\* Logger "main" at DEBUG with its three handlers, then logger.info("LOGGING STARTED").
SetupLogging ==
    /\ pc = "setup_logging"
    /\ LoggerCall(<<LogRecord(INFO, "LOGGING STARTED", "", <<>>, 0)>>)
    /\ pc' = "add_cors"
    /\ boot' = Append(boot, "logging")
    /\ UNCHANGED <<configFile, config, cors, controllers, gs, nreq, reqs, schemaVars>>

\* app.add_middleware(CORSMiddleware, allow_origins=origins, ...)
AddCorsMiddleware ==
    /\ pc = "add_cors"
    /\ cors' = [installed |-> TRUE, allow_origins |-> {AllowedOrigin},
                allow_credentials |-> TRUE, allow_all_methods |-> TRUE,
                allow_all_headers |-> TRUE]
    /\ pc' = "construct_gs"
    /\ boot' = Append(boot, "cors")
    /\ UNCHANGED <<configFile, config, console, logFile, debugFile, controllers, gs,
                   nreq, reqs, schemaVars>>

\* gs = GroundStation(); the rest of the module only registers handlers and
\* routes, after which the server starts serving.
ConstructController ==
    /\ pc = "construct_gs"
    /\ LET inst == Cardinality(controllers) + 1
       IN  /\ controllers' = controllers \cup {inst}
           /\ gs' = inst
    /\ pc' = "serving"
    /\ boot' = Append(boot, "controller")
    /\ UNCHANGED <<configFile, config, console, logFile, debugFile, cors, nreq, reqs,
                   schemaVars>>

----------------------------------------------------------------------------
(* CORSMiddleware as configured at app.py 64-73                            *)

\* allow_methods=["*"] stands for the standard methods.
ALL_METHODS == {"DELETE", "GET", "HEAD", "OPTIONS", "PATCH", "POST", "PUT"}

\* A variant that allows every origin.
is_allowed_origin_any(origin) == TRUE

is_allowed_origin(origin) == origin \in cors.allow_origins

\* Headers the middleware adds to a response that passes back through it.
SimpleHeaders(origin) ==
    IF origin = "" THEN NoHeaders
    ELSE [allow_origin |-> IF is_allowed_origin(origin) THEN origin ELSE "",
          allow_credentials |-> cors.allow_credentials,
          vary_origin |-> is_allowed_origin(origin)]

IsPreflight(r) == r.origin # "" /\ r.method = "OPTIONS" /\ r.acrm # ""

PreflightFailures(r) ==
    (IF is_allowed_origin(r.origin) THEN {} ELSE {"origin"})
    \cup (IF cors.allow_all_methods /\ r.acrm \in ALL_METHODS THEN {} ELSE {"method"})

PreflightText(failures) ==
    IF failures = {} THEN "OK"
    ELSE IF failures = {"origin"} THEN "Disallowed CORS origin"
    ELSE IF failures = {"method"} THEN "Disallowed CORS method"
    ELSE "Disallowed CORS origin, method"

Respond(r, status, body, headers) ==
    [r EXCEPT !.stage = "responded", !.status = status, !.body = body,
              !.headers = headers]

\* CORSMiddleware.preflight_response: answered by the middleware itself.
PreflightResponse(r) ==
    LET failures == PreflightFailures(r)
    IN  Respond(r, IF failures = {} THEN 200 ELSE 400,
                [text |-> PreflightText(failures)],
                [allow_origin |-> IF is_allowed_origin(r.origin) THEN r.origin ELSE "",
                 allow_credentials |-> cors.allow_credentials,
                 vary_origin |-> TRUE])

\* The router: a route matches on path and method; a path match alone is
\* 405, no match 404, both raised as HTTPException.
Router(r) ==
    LET full == {rt \in Routes : rt.path = r.path /\ rt.method = r.method}
        partial == {rt \in Routes : rt.path = r.path}
    IN  IF full # {}
        THEN [r EXCEPT !.stage = "endpoint", !.route = (CHOOSE rt \in full : TRUE).name]
        ELSE IF partial # {}
        THEN [r EXCEPT !.stage = "raised",
                       !.exc = Exc("HTTPException", "Method Not Allowed", 405)]
        ELSE [r EXCEPT !.stage = "raised",
                       !.exc = Exc("HTTPException", "Not Found", 404)]

\* CORSMiddleware.__call__: a preflight is answered here; a request without
\* Origin, or a simple request whatever its Origin, goes on to the router.
CORSMiddleware(r) ==
    IF IsPreflight(r) THEN PreflightResponse(r) ELSE Router(r)

LowestIdle(w) ==
    /\ reqs[w].stage = "idle"
    /\ \A v \in Workers : v < w => reqs[v].stage # "idle"

\* A request arrives, a free thread takes it, and it goes down the
\* middleware stack to the route that matches it. The OPTIONS requests
\* modelled are the CORS preflights.
ReceiveRequest(w, origins) ==
    /\ pc = "serving"
    /\ LowestIdle(w)
    /\ nreq < MaxRequests
    /\ nreq' = nreq + 1
    /\ \E m \in Methods, p \in Paths, o \in origins, a \in RequestedMethods :
          /\ (m = "OPTIONS") <=> (a # "")
          /\ m = "OPTIONS" => o # ""
          /\ reqs' = [reqs EXCEPT ![w] =
                 CORSMiddleware([Idle EXCEPT !.id = nreq + 1, !.stage = "received",
                                             !.method = m, !.path = p, !.origin = o,
                                             !.acrm = a])]
    /\ UNCHANGED <<configFile, pc, config, boot, console, logFile, debugFile, cors,
                   controllers, gs, schemaVars>>

----------------------------------------------------------------------------
(* Routes (app.py 154-196, 306-313)                                        *)

\* A variant without the 201 of the login route.
StatusCodeAlways200(name) == 200

StatusCode(name) == RouteNamed(name).status_code

\* The response models (GeneralOut, MissionOut, TelemetryOut, QuickOut) all
\* declare the single field `result`.
ResponseFields == {"result"}

\* response_model: the value the route function returned is validated against
\* the route's model and only the model's fields are sent; a value that does
\* not validate raises a validation error from inside the route.
SerializeResponse(r) ==
    IF ResponseFields \subseteq DOMAIN r.result
    THEN Respond(r, StatusCode(r.route), [result |-> r.result.result],
                 SimpleHeaders(r.origin))
    ELSE [r EXCEPT !.stage = "raised",
                   !.exc = Exc("ValidationError", "field required", 0)]

\* return gs.call(command): one call on the module's Controller, whose value
\* the function returns and whose exception it lets through.
Endpoint(w, name, command) ==
    /\ reqs[w].stage = "endpoint"
    /\ reqs[w].route = name
    /\ LET r == reqs[w]
           call == [inst |-> gs, command |-> command, args |-> <<>>]
       IN  \/ \E P \in Payloads :
                reqs' = [reqs EXCEPT ![w] =
                    SerializeResponse(
                        [r EXCEPT !.calls = Append(r.calls, call),
                                  !.ctl = [kind |-> "returned", value |-> P,
                                           exc |-> NoExc],
                                  !.result = P])]
           \/ \E t \in ControllerErrors, m \in Messages :
                reqs' = [reqs EXCEPT ![w] =
                    [r EXCEPT !.stage = "raised", !.calls = Append(r.calls, call),
                              !.ctl = [kind |-> "raised", value |-> NoValue,
                                       exc |-> Exc(t, m, 0)],
                              !.exc = Exc(t, m, 0)]]
    /\ UNCHANGED <<configFile, pc, config, boot, console, logFile, debugFile, cors,
                   controllers, gs, nreq, schemaVars>>

interop_login(w) == Endpoint(w, "interop_login", "i_login")

interop_mission(w) == Endpoint(w, "interop_mission", "i_mission")

interop_telemetry(w) == Endpoint(w, "interop_telemetry", "i_telemetry")

\* A variant of quick that dispatches the command of a disabled route.
quick_stats(w) == Endpoint(w, "quick", "m_stats")

quick(w) == Endpoint(w, "quick", "m_quick")

----------------------------------------------------------------------------
(* Error translation (app.py 78-151)                                       *)

\* Classes of an exception type, most specific first.
Mro(type) ==
    IF type = "KeyError" THEN <<"KeyError", "LookupError", "Exception">>
    ELSE IF type = "ValidationError" THEN <<"ValidationError", "ValueError", "Exception">>
    ELSE <<type, "Exception">>

\* Handlers registered by @app.exception_handler; the framework's own handler
\* for HTTPException stays in place. The handler registered for Exception
\* is the one ServerErrorMiddleware, outside the CORS middleware, calls.
ExceptionHandlers ==
    [InvalidRequestError |-> "handle_400",
     InvalidStateError |-> "handle_409",
     RequestValidationError |-> "handle_422",
     ServiceUnavailableError |-> "handle_503",
     GeneralError |-> "handle_500",
     HTTPException |-> "http_exception_handler"]

LookupHandler(type) ==
    LET mro == Mro(type)
        hits == {i \in 1..Len(mro) : mro[i] \in DOMAIN ExceptionHandlers}
    IN  IF hits # {}
        THEN [layer |-> "ExceptionMiddleware",
              handler |-> ExceptionHandlers[mro[CHOOSE i \in hits : \A j \in hits : i <= j]]]
        ELSE [layer |-> "ServerErrorMiddleware", handler |-> "handle_500"]

\* A variant that leaves the traceback out.
ExceptionEnvelopeNoTraceback(title, e) ==
    [title |-> title, message |-> e.msg, exception |-> e.type]

ExceptionEnvelope(title, e) ==
    [title |-> title, message |-> e.msg, exception |-> e.type, traceback |-> e.tb]

\* The body shared by the five handlers: two log calls, then the JSON response.
HandleException(w, name, status, title) ==
    /\ reqs[w].stage = "raised"
    /\ LookupHandler(reqs[w].exc.type).handler = name
    /\ LET r == reqs[w]
           e == r.exc
           layer == LookupHandler(e.type).layer
       IN  /\ LoggerCall(<<LogRecord(ERROR, e.type, "", <<>>, r.id),
                           LogRecord(INFO, "Traceback of %s : ", e.type, e.tb, r.id)>>)
           /\ reqs' = [reqs EXCEPT ![w] =
                 Respond([r EXCEPT !.handler = name, !.layer = layer],
                         status, ExceptionEnvelope(title, e),
                         IF layer = "ExceptionMiddleware"
                         THEN SimpleHeaders(r.origin) ELSE NoHeaders)]
    /\ UNCHANGED <<configFile, pc, config, boot, cors, controllers, gs, nreq, schemaVars>>

handle_400(w) == HandleException(w, "handle_400", 400, "Invalid Request")

\* A variant of handle_409 with the catch-all status.
handle_409_as_500(w) == HandleException(w, "handle_409", 500, "Invalid State")

handle_409(w) == HandleException(w, "handle_409", 409, "Invalid State")

\* Registered for RequestValidationError, which the framework raises when a
\* route's declared parameters or body do not validate. None of the four
\* enabled routes declares any, so no request reaches this handler and it is
\* no disjunct of Next.
handle_422(w) == HandleException(w, "handle_422", 422, "Request Validation Failed")

\* A variant of handle_503 with the catch-all title.
handle_503_untitled(w) == HandleException(w, "handle_503", 503, "Server Error")

handle_503(w) == HandleException(w, "handle_503", 503, "Service Unavailable")

handle_500(w) == HandleException(w, "handle_500", 500, "Server Error")

\* The framework's handler for HTTPException (404, 405): no logging, a
\* {"detail": ...} body.
http_exception_handler(w) ==
    /\ reqs[w].stage = "raised"
    /\ LookupHandler(reqs[w].exc.type).handler = "http_exception_handler"
    /\ LET r == reqs[w]
       IN  reqs' = [reqs EXCEPT ![w] =
             Respond([r EXCEPT !.handler = "http_exception_handler",
                               !.layer = "ExceptionMiddleware"],
                     r.exc.status, [detail |-> r.exc.msg], SimpleHeaders(r.origin))]
    /\ UNCHANGED <<configFile, pc, config, boot, console, logFile, debugFile, cors,
                   controllers, gs, nreq, schemaVars>>

\* The response has been sent; nothing of the request outlives it.
Retire(w) ==
    /\ reqs[w].stage = "responded"
    /\ reqs' = [reqs EXCEPT ![w] = Idle]
    /\ UNCHANGED <<configFile, pc, config, boot, console, logFile, debugFile, cors,
                   controllers, gs, nreq, schemaVars>>

Startup ==
    \/ LoadConfig
    \/ SetupLogging
    \/ AddCorsMiddleware
    \/ ConstructController

\* What worker w may do for a request whose Origin is drawn from `origins`.
RequestStep(w, origins) ==
    \/ ReceiveRequest(w, origins)
    \/ interop_login(w)
    \/ interop_mission(w)
    \/ interop_telemetry(w)
    \/ quick(w)
    \/ handle_400(w)
    \/ handle_409(w)
    \/ handle_503(w)
    \/ handle_500(w)
    \/ http_exception_handler(w)
    \/ Retire(w)

Next == Startup \/ RequestStep(1, Origins)

NextConcurrent == Startup \/ \E w \in Workers : RequestStep(w, {AllowedOrigin})

Spec == Init /\ [][Next]_vars

SpecConcurrent == Init /\ [][NextConcurrent]_vars

----------------------------------------------------------------------------
(* Schema library (models.py 15-39)                                        *)

\* How far around each limit the sampled field values reach.
Margin == 2

CoordGt == -180
CoordLe == 180
HeadingGe == 0
HeadingLt == 360
RadiusGe == 0
HeightGe == 0

\* A field of the input: absent, a number, or a value that is no number.
Num(v) == [kind |-> "num", v |-> v]

Missing == [kind |-> "missing", v |-> 0]

NotANumber == [kind |-> "other", v |-> 0]

Around(limit) == (limit - Margin) .. (limit + Margin)

CoordInputs ==
    {Missing, NotANumber} \cup {Num(v) : v \in Around(CoordGt) \cup {0} \cup Around(CoordLe)}

AltitudeInputs == {Missing, Num(150)}

HeadingInputs == {Missing} \cup {Num(v) : v \in {HeadingGe - 1, HeadingGe, HeadingLt - 1, HeadingLt}}

LengthInputs == {Missing} \cup {Num(v) : v \in {-1, 0, 150}}

Models == {"LatLonDict", "LatLonAltDict", "TelemetryDict", "ObstacleDict"}

\* Field(...): the field is required and must be a number.
Required(f) == f.kind = "num"

CheckGt(v, bound) == v > bound

CheckGe(v, bound) == v >= bound

CheckLt(v, bound) == v < bound

\* A variant of le= with the bound left out.
CheckLeStrict(v, bound) == v < bound

CheckLe(v, bound) == v <= bound

LatLonDictValid(in) ==
    /\ Required(in.latitude)
    /\ CheckGt(in.latitude.v, CoordGt) /\ CheckLe(in.latitude.v, CoordLe)
    /\ Required(in.longitude)
    /\ CheckGt(in.longitude.v, CoordGt) /\ CheckLe(in.longitude.v, CoordLe)

LatLonAltDictValid(in) ==
    /\ LatLonDictValid(in)
    /\ Required(in.altitude)

TelemetryDictValid(in) ==
    /\ LatLonAltDictValid(in)
    /\ Required(in.heading)
    /\ CheckGe(in.heading.v, HeadingGe) /\ CheckLt(in.heading.v, HeadingLt)

ObstacleDictValid(in) ==
    /\ LatLonDictValid(in)
    /\ Required(in.radius) /\ CheckGe(in.radius.v, RadiusGe)
    /\ Required(in.height) /\ CheckGe(in.height.v, HeightGe)

Valid(in) ==
    CASE in.model = "LatLonDict" -> LatLonDictValid(in)
      [] in.model = "LatLonAltDict" -> LatLonAltDictValid(in)
      [] in.model = "TelemetryDict" -> TelemetryDictValid(in)
      [] in.model = "ObstacleDict" -> ObstacleDictValid(in)

\* The keyword arguments a model's constructor reads; the others are absent.
Reads(in) ==
    /\ in.model \in {"LatLonDict", "ObstacleDict"} => in.altitude = Missing
    /\ in.model # "TelemetryDict" => in.heading = Missing
    /\ in.model # "ObstacleDict" => in.radius = Missing /\ in.height = Missing

\* Model(**fields): the record is built, or a validation error is raised.
Construct ==
    /\ schemaIn.model = "none"
    /\ \E m \in Models, la \in CoordInputs, lo \in CoordInputs,
          al \in AltitudeInputs, he \in HeadingInputs,
          ra \in LengthInputs, ht \in LengthInputs :
          LET in == [model |-> m, latitude |-> la, longitude |-> lo, altitude |-> al,
                     heading |-> he, radius |-> ra, height |-> ht]
          IN  /\ Reads(in)
              /\ schemaIn' = in
              /\ schemaOut' = IF Valid(in) THEN "constructed" ELSE "ValidationError"
    /\ UNCHANGED gatewayVars

NextSchema == Construct

SpecSchema == Init /\ [][NextSchema]_vars

----------------------------------------------------------------------------
(* Properties                                                              *)

Responded(w) == reqs[w].stage = "responded"

EnvelopeFields == {"title", "message", "exception", "traceback"}

IsEnvelope(body) == DOMAIN body = EnvelopeFields

EvilOrigin == "http://evil.example"

TranslationHandlers == {"handle_400", "handle_409", "handle_422", "handle_503", "handle_500"}

\* The records of a sink that belong to request `id`.
RecordsOf(sink, id) ==
    LET Mine(rec) == rec.req = id
    IN  SelectSeq(sink, Mine)

\* C1: whatever the route, a failure raised by the Controller's dispatch is
\* answered with the status of its kind: Invalid Request 400, Invalid State
\* 409, Service Unavailable 503, General or any other exception 500.
C1_StatusByFailureKind ==
    \A w \in Workers :
        (Responded(w) /\ reqs[w].ctl.kind = "raised") =>
            LET t == reqs[w].ctl.exc.type
            IN  reqs[w].status =
                    (IF t = "InvalidRequestError" THEN 400
                     ELSE IF t = "InvalidStateError" THEN 409
                     ELSE IF t = "ServiceUnavailableError" THEN 503
                     ELSE 500)

C1_Witness ==
    \E w \in Workers :
        /\ Responded(w)
        /\ reqs[w].route = "interop_mission"
        /\ reqs[w].ctl.kind = "raised"
        /\ reqs[w].ctl.exc.type = "InvalidStateError"
        /\ reqs[w].status = 409

\* C2 as stated: every error envelope's title is the failure-kind label of the
\* error-translation table, "General / unclassified" for 500 and "Request
\* validation failed" for 422.
C2_TitleIsTableLabel ==
    \A w \in Workers :
        (Responded(w) /\ reqs[w].handler \in TranslationHandlers) =>
            reqs[w].body.title =
                (CASE reqs[w].status = 400 -> "Invalid Request"
                   [] reqs[w].status = 409 -> "Invalid State"
                   [] reqs[w].status = 422 -> "Request validation failed"
                   [] reqs[w].status = 503 -> "Service Unavailable"
                   [] OTHER -> "General / unclassified")

\* C2 amended: every error envelope's title is the one its handler sets,
\* "Invalid Request" for 400, "Invalid State" for 409, "Request Validation
\* Failed" for 422, "Service Unavailable" for 503 and "Server Error" for 500,
\* together with the failure's message text, the name of its type and its
\* traceback lines.
C2_TitleIsHandlerTitle ==
    \A w \in Workers :
        (Responded(w) /\ reqs[w].handler \in TranslationHandlers) =>
            /\ IsEnvelope(reqs[w].body)
            /\ reqs[w].body.title =
                (CASE reqs[w].status = 400 -> "Invalid Request"
                   [] reqs[w].status = 409 -> "Invalid State"
                   [] reqs[w].status = 422 -> "Request Validation Failed"
                   [] reqs[w].status = 503 -> "Service Unavailable"
                   [] reqs[w].status = 500 -> "Server Error"
                   [] OTHER -> "")
            /\ reqs[w].body.message = reqs[w].exc.msg
            /\ reqs[w].body.exception = reqs[w].exc.type
            /\ reqs[w].body.traceback = reqs[w].exc.tb
            /\ reqs[w].ctl.kind = "raised" => reqs[w].exc = reqs[w].ctl.exc

C2_Witness ==
    \E w \in Workers :
        /\ Responded(w)
        /\ reqs[w].ctl.kind = "raised"
        /\ reqs[w].ctl.exc.type = "GeneralError"
        /\ reqs[w].status = 500
        /\ reqs[w].body.title = "Server Error"
        /\ reqs[w].body.exception = "GeneralError"

\* The success status each route declares.
DeclaredStatus(route) == IF route = "interop_login" THEN 201 ELSE 200

IsSuccess(r) == r.status \in {200, 201}

ErrorShape(r) ==
    /\ IsEnvelope(r.body)
    /\ r.status \in {400, 409, 422, 500, 503}

\* C4 as stated: every request to the service that does not end in a success
\* response ends in an ExceptionEnvelope with a status in {400, 409, 422, 500,
\* 503}, and no Controller failure ends in a success response.
C4_EveryFailureIsEnvelope ==
    \A w \in Workers :
        Responded(w) =>
            /\ IsSuccess(reqs[w]) \/ ErrorShape(reqs[w])
            /\ reqs[w].ctl.kind = "raised" => ~IsSuccess(reqs[w])

\* C4 amended: every request that reaches one of the four enabled routes and
\* does not end in a success response ends in an ExceptionEnvelope with
\* exactly the fields title, message, exception, traceback and a status in
\* {400, 409, 422, 500, 503}, and no Controller failure ends in a success
\* response. (A request that matches no enabled route is answered by the
\* framework with 404 or 405 and a {"detail"} body, a refused preflight with
\* 400 and a text body.)
C4_RoutedFailureIsEnvelope ==
    \A w \in Workers :
        (Responded(w) /\ reqs[w].route # "") =>
            /\ \/ /\ reqs[w].status = DeclaredStatus(reqs[w].route)
                  /\ DOMAIN reqs[w].body = {"result"}
                  /\ reqs[w].ctl.kind = "returned"
               \/ ErrorShape(reqs[w])
            /\ reqs[w].ctl.kind = "raised" => ErrorShape(reqs[w])

C4_Witness ==
    \E w \in Workers :
        /\ Responded(w)
        /\ reqs[w].route = "quick"
        /\ reqs[w].ctl.kind = "raised"
        /\ reqs[w].ctl.exc.type = "KeyError"
        /\ reqs[w].status = 500
        /\ IsEnvelope(reqs[w].body)

\* C6 as stated: a request, preflight or actual, whose Origin is not
\* http://localhost:3000 does not reach a route's Controller dispatch.
C6_ForeignOriginNeverDispatched ==
    \A w \in Workers :
        reqs[w].origin \notin {"", AllowedOrigin} => reqs[w].calls = <<>>

\* C6 amended: a preflight is answered by the CORS policy and reaches no
\* dispatch; from an Origin other than http://localhost:3000 it is refused
\* with 400 and no Access-Control-Allow-Origin, from http://localhost:3000 it
\* is accepted with 200 for the requested method, with that origin allowed and
\* credentials allowed. An actual request is routed and dispatched whatever
\* its Origin; from another Origin its response carries no
\* Access-Control-Allow-Origin, from http://localhost:3000 every response that
\* passes back through the CORS layer (all but the 500 of an unclassified
\* exception) carries that origin and allows credentials.
C6_CorsPolicy ==
    \A w \in Workers :
        Responded(w) =>
            LET r == reqs[w]
            IN  /\ IsPreflight(r) =>
                    /\ r.calls = <<>>
                    /\ r.route = ""
                    /\ IF r.origin = AllowedOrigin
                       THEN /\ r.status = 200
                            /\ r.headers.allow_origin = AllowedOrigin
                            /\ r.headers.allow_credentials
                       ELSE /\ r.status = 400
                            /\ r.headers.allow_origin = ""
                /\ r.origin \notin {"", AllowedOrigin} => r.headers.allow_origin = ""
                /\ (~IsPreflight(r) /\ r.route # "") => Len(r.calls) = 1
                /\ (~IsPreflight(r) /\ r.origin = AllowedOrigin
                        /\ r.layer # "ServerErrorMiddleware") =>
                    /\ r.headers.allow_origin = AllowedOrigin
                    /\ r.headers.allow_credentials

C6_Witness ==
    \E w \in Workers :
        /\ Responded(w)
        /\ reqs[w].origin = EvilOrigin
        /\ reqs[w].method = "GET"
        /\ reqs[w].route = "interop_telemetry"
        /\ Len(reqs[w].calls) = 1
        /\ reqs[w].status = 200
        /\ reqs[w].headers.allow_origin = ""

InRange(f) == f.kind = "num" /\ f.v > -180 /\ f.v <= 180

\* C7: a GeographicPoint is constructed if and only if latitude and longitude
\* are both present and each in (-180, 180]; the records that extend it are
\* constructed only within the same bounds, and within them whenever their
\* own fields are valid.
C7_CoordinateBounds ==
    schemaIn.model # "none" =>
        LET ok == InRange(schemaIn.latitude) /\ InRange(schemaIn.longitude)
            own == CASE schemaIn.model = "LatLonDict" -> TRUE
                     [] schemaIn.model = "LatLonAltDict" -> schemaIn.altitude.kind = "num"
                     [] schemaIn.model = "TelemetryDict" ->
                            /\ schemaIn.altitude.kind = "num"
                            /\ schemaIn.heading.kind = "num"
                            /\ schemaIn.heading.v \in 0..359
                     [] schemaIn.model = "ObstacleDict" ->
                            /\ schemaIn.radius.kind = "num" /\ schemaIn.radius.v >= 0
                            /\ schemaIn.height.kind = "num" /\ schemaIn.height.v >= 0
        IN  /\ schemaOut \in {"constructed", "ValidationError"}
            /\ schemaOut = "constructed" <=> (ok /\ own)

C7_Witness ==
    /\ schemaIn.model = "ObstacleDict"
    /\ schemaIn.latitude = Num(180)
    /\ schemaIn.longitude = Num(-179)
    /\ schemaOut = "constructed"

\* The command each route passes to the dispatch.
CommandOf(route) ==
    CASE route = "interop_login" -> "i_login"
      [] route = "interop_mission" -> "i_mission"
      [] route = "interop_telemetry" -> "i_telemetry"
      [] route = "quick" -> "m_quick"

\* C8: a request handled by an enabled route causes exactly one dispatch call,
\* with the route's command name and no positional arguments, and none after
\* the call failed; the route returns the Controller's value, or passes on its
\* failure, unchanged. A request no route handles causes no call.
C8_OneDispatchPerRequest ==
    \A w \in Workers :
        LET r == reqs[w]
        IN  /\ Len(r.calls) <= 1
            /\ r.stage \in {"idle", "received", "endpoint"} => r.calls = <<>>
            /\ r.route = "" => r.calls = <<>>
            /\ (r.stage \in {"raised", "responded"} /\ r.route # "") =>
                /\ Len(r.calls) = 1
                /\ r.calls[1].command = CommandOf(r.route)
                /\ r.calls[1].args = <<>>
                /\ r.ctl.kind \in {"returned", "raised"}
                /\ r.ctl.kind = "returned" => r.result = r.ctl.value
                /\ r.ctl.kind = "raised" => r.exc = r.ctl.exc /\ r.result = NoValue

C8_Witness ==
    \E w \in Workers :
        /\ Responded(w)
        /\ reqs[w].route = "quick"
        /\ reqs[w].ctl.kind = "raised"
        /\ reqs[w].status = 503
        /\ reqs[w].calls = <<[inst |-> gs, command |-> "m_quick", args |-> <<>>]>>

\* C9: a failure the translation layer intercepts is logged once, with its
\* response, as the name of its kind at ERROR and then its traceback at INFO;
\* the console receives the ERROR record only, log.txt and debug_log.txt
\* both records, and a request that has not failed logs nothing.
C9_FailureLoggedOnce ==
    /\ \A id \in 1..nreq :
          LET lf == RecordsOf(logFile, id)
          IN  /\ Len(lf) \in {0, 2}
              /\ RecordsOf(debugFile, id) = lf
              /\ RecordsOf(console, id) = (IF lf = <<>> THEN <<>> ELSE <<lf[1]>>)
              /\ lf # <<>> => lf[1].level = ERROR /\ lf[2].level = INFO
    /\ \A w \in Workers :
          LET r == reqs[w]
              lf == RecordsOf(logFile, r.id)
          IN  r.stage # "idle" =>
                IF Responded(w) /\ r.handler \in TranslationHandlers
                THEN /\ Len(lf) = 2
                     /\ lf[1].msg = r.exc.type
                     /\ lf[2].args = r.exc.type /\ lf[2].exc_info = r.exc.tb
                ELSE lf = <<>>

C9_Witness ==
    \E w \in Workers :
        /\ Responded(w)
        /\ reqs[w].handler = "handle_503"
        /\ Len(RecordsOf(console, reqs[w].id)) = 1
        /\ Len(RecordsOf(logFile, reqs[w].id)) = 2
        /\ Len(RecordsOf(debugFile, reqs[w].id)) = 2

\* C10: one Controller is constructed, after the configuration is loaded and
\* logging has started and before any request is received; whatever the
\* requests, there is still one and every dispatch call went to it; when
\* config.json does not load, the process stops with no Controller and no
\* request served.
C10_SingleController ==
    /\ Cardinality(controllers) <= 1
    /\ controllers # {} =>
          /\ controllers = {gs}
          /\ config = "loaded"
          /\ Len(boot) = 4
          /\ boot[1] = "config" /\ boot[2] = "logging" /\ boot[4] = "controller"
          /\ logFile # <<>> /\ logFile[1].msg = "LOGGING STARTED"
    /\ (nreq > 0 \/ \E w \in Workers : reqs[w].stage # "idle") =>
          pc = "serving" /\ Cardinality(controllers) = 1
    /\ \A w \in Workers : \A i \in 1..Len(reqs[w].calls) :
          reqs[w].calls[i].inst = gs /\ reqs[w].calls[i].inst \in controllers
    /\ configFile # "valid" =>
          /\ pc \in {"load_config", "crashed"}
          /\ controllers = {}
          /\ gs = 0
          /\ nreq = 0

C10_Witness ==
    /\ Cardinality(controllers) = 1
    /\ \E v, w \in Workers :
          /\ v # w
          /\ reqs[v].stage = "raised" /\ Len(reqs[v].calls) = 1
          /\ Responded(w) /\ Len(reqs[w].calls) = 1
          /\ reqs[v].calls[1].inst = reqs[w].calls[1].inst
====
